---- MODULE Spec2Model ----
(***************************************************************************)
(* A model of chepy/modules/encryptionencoding.py: the EncryptionEncoding  *)
(* methods act on one Chepy object whose state they read and replace.      *)
(*                                                                         *)
(* Text is a sequence of code points, a byte buffer a sequence of numbers  *)
(* in 0..255.  The object's state is a record [kind, val] where kind is    *)
(* the Python type of the value ("str", "bytes", "bytearray", "dict").     *)
(* Every method call appends one entry to log: the method, its arguments,  *)
(* the state it found and "ok" or the exception it raised.                 *)
(***************************************************************************)
EXTENDS Integers, Sequences, FiniteSets, TLC

VARIABLES
    state,            \* self.state of the Chepy object
    MORSE_CODE_DICT,  \* EncryptionConsts.MORSE_CODE_DICT, shared by all calls
    log               \* the calls made so far, oldest first

vars == <<state, MORSE_CODE_DICT, log>>

\* Bounds of the exploration.
MaxCalls == 2
MaxLen == 2

(***************************************************************************)
(* Python values                                                           *)
(***************************************************************************)
Str(s) == [kind |-> "str", val |-> s]
Bytes(b) == [kind |-> "bytes", val |-> b]
ByteArray(b) == [kind |-> "bytearray", val |-> b]

Ok(v) == [ok |-> TRUE, val |-> v, err |-> "ok"]
Raise(e) == [ok |-> FALSE, val |-> <<>>, err |-> e]

\* The one element of a one-element set.  Only({e(x) : x \in {v}}) is e(v)
\* with v evaluated once, as an assignment to a local variable is.
Only(S) == CHOOSE r \in S : TRUE

\* All sequences over S of length 0..n.
RECURSIVE SeqsUpTo(_, _)
SeqsUpTo(S, n) ==
    IF n = 0 THEN {<<>>}
    ELSE LET shorter == SeqsUpTo(S, n - 1)
         IN shorter \cup {Append(s, x) : s \in {t \in shorter : Len(t) = n - 1}, x \in S}

\* a ^ b on Python integers (non-negative here).
RECURSIVE BitXor(_, _)
BitXor(a, b) ==
    IF a = 0 THEN b
    ELSE IF b = 0 THEN a
    ELSE ((a + b) % 2) + 2 * BitXor(a \div 2, b \div 2)

\* seq[:n] as Python slices it.
Slice(seq, n) ==
    LET stop == IF n >= 0 THEN (IF n < Len(seq) THEN n ELSE Len(seq))
                ELSE (IF Len(seq) + n > 0 THEN Len(seq) + n ELSE 0)
    IN SubSeq(seq, 1, stop)

\* seq[n:] as Python slices it.
SliceFrom(seq, n) ==
    LET start == IF n >= 0 THEN (IF n < Len(seq) THEN n ELSE Len(seq))
                 ELSE (IF Len(seq) + n > 0 THEN Len(seq) + n ELSE 0)
    IN SubSeq(seq, start + 1, Len(seq))

(***************************************************************************)
(* str.encode() and bytes.decode(): strict UTF-8                           *)
(***************************************************************************)
IsSurrogate(c) == c >= 55296 /\ c <= 57343

Utf8EncodeChar(c) ==
    IF c < 128 THEN <<c>>
    ELSE IF c < 2048 THEN <<192 + (c \div 64), 128 + (c % 64)>>
    ELSE IF c < 65536 THEN
        <<224 + (c \div 4096), 128 + ((c \div 64) % 64), 128 + (c % 64)>>
    ELSE <<240 + (c \div 262144), 128 + ((c \div 4096) % 64),
           128 + ((c \div 64) % 64), 128 + (c % 64)>>

RECURSIVE Utf8EncodeAll(_)
Utf8EncodeAll(s) ==
    IF s = <<>> THEN <<>> ELSE Utf8EncodeChar(Head(s)) \o Utf8EncodeAll(Tail(s))

Utf8Encode(s) ==
    IF \E i \in 1..Len(s) : IsSurrogate(s[i]) THEN Raise("UnicodeEncodeError")
    ELSE Ok(Utf8EncodeAll(s))

IsCont(b) == b >= 128 /\ b <= 191

RECURSIVE Utf8Decode(_)
Utf8Decode(b) ==
    IF b = <<>> THEN Ok(<<>>)
    ELSE
      LET b1 == b[1]
          n == IF b1 < 128 THEN 1
               ELSE IF b1 >= 194 /\ b1 <= 223 THEN 2
               ELSE IF b1 >= 224 /\ b1 <= 239 THEN 3
               ELSE IF b1 >= 240 /\ b1 <= 244 THEN 4
               ELSE 0
      IN IF n = 0 \/ Len(b) < n \/ (\E i \in 2..n : ~IsCont(b[i]))
         THEN Raise("UnicodeDecodeError")
         ELSE
           LET cp == IF n = 1 THEN b1
                     ELSE IF n = 2 THEN (b1 - 192) * 64 + (b[2] - 128)
                     ELSE IF n = 3 THEN
                         (b1 - 224) * 4096 + (b[2] - 128) * 64 + (b[3] - 128)
                     ELSE (b1 - 240) * 262144 + (b[2] - 128) * 4096
                          + (b[3] - 128) * 64 + (b[4] - 128)
               wellFormed == \/ n <= 2
                             \/ n = 3 /\ cp >= 2048 /\ ~IsSurrogate(cp)
                             \/ n = 4 /\ cp >= 65536 /\ cp <= 1114111
           IN IF ~wellFormed THEN Raise("UnicodeDecodeError")
              ELSE LET rest == Utf8Decode(SubSeq(b, n + 1, Len(b)))
                   IN IF rest.ok THEN Ok(<<cp>> \o rest.val) ELSE rest

\* ChepyCore._convert_to_str: the state as text.
_convert_to_str(st) ==
    IF st.kind = "str" THEN Ok(st.val) ELSE Utf8Decode(st.val)

\* ChepyCore._convert_to_bytes: the state as bytes.
_convert_to_bytes(st) ==
    IF st.kind = "str" THEN Utf8Encode(st.val) ELSE Ok(st.val)

(***************************************************************************)
(* binascii.hexlify / unhexlify and base64.b64decode                       *)
(***************************************************************************)
HexDigitValue(c) ==
    IF c >= 48 /\ c <= 57 THEN c - 48
    ELSE IF c >= 97 /\ c <= 102 THEN c - 87
    ELSE IF c >= 65 /\ c <= 70 THEN c - 55
    ELSE -1

HexDigitChar(v) == IF v < 10 THEN 48 + v ELSE 87 + v

RECURSIVE Hexlify(_)
Hexlify(b) ==
    IF b = <<>> THEN <<>>
    ELSE <<HexDigitChar(Head(b) \div 16), HexDigitChar(Head(b) % 16)>> \o Hexlify(Tail(b))

\* binascii.unhexlify of ASCII text or bytes holding hex digits.
Unhexlify(s) ==
    IF Len(s) % 2 = 1 THEN Raise("binascii.Error")
    ELSE IF \E i \in 1..Len(s) : HexDigitValue(s[i]) < 0 THEN Raise("binascii.Error")
    ELSE Ok([i \in 1..(Len(s) \div 2) |->
                16 * HexDigitValue(s[2 * i - 1]) + HexDigitValue(s[2 * i])])

B64Value(c) ==
    IF c >= 65 /\ c <= 90 THEN c - 65
    ELSE IF c >= 97 /\ c <= 122 THEN c - 71
    ELSE IF c >= 48 /\ c <= 57 THEN c + 4
    ELSE IF c = 43 THEN 62
    ELSE IF c = 47 THEN 63
    ELSE -1

RECURSIVE B64Quads(_)
B64Quads(d) ==
    IF Len(d) >= 4 THEN
        <<d[1] * 4 + (d[2] \div 16), (d[2] % 16) * 16 + (d[3] \div 4), (d[3] % 4) * 64 + d[4]>>
        \o B64Quads(SubSeq(d, 5, Len(d)))
    ELSE IF Len(d) = 3 THEN <<d[1] * 4 + (d[2] \div 16), (d[2] % 16) * 16 + (d[3] \div 4)>>
    ELSE IF Len(d) = 2 THEN <<d[1] * 4 + (d[2] \div 16)>>
    ELSE <<>>

\* binascii.a2b_base64 without strict mode, from character i on: q is the
\* position in the group of four, pads the "=" seen in this group, d the
\* sextets read.  Characters outside the alphabet are skipped, the scan stops
\* at the "=" that completes a group, and a group left open at the end is an
\* error.
RECURSIVE B64Scan(_, _, _, _, _)
B64Scan(s, i, q, pads, d) ==
    IF i > Len(s) THEN (IF q = 0 THEN Ok(B64Quads(d)) ELSE Raise("binascii.Error"))
    ELSE IF s[i] = 61 THEN
        IF q >= 2 /\ q + pads + 1 >= 4 THEN Ok(B64Quads(d))
        ELSE B64Scan(s, i + 1, q, IF q >= 2 THEN pads + 1 ELSE pads, d)
    ELSE IF B64Value(s[i]) < 0 THEN B64Scan(s, i + 1, q, pads, d)
    ELSE B64Scan(s, i + 1, (q + 1) % 4, 0, Append(d, B64Value(s[i])))

\* base64.b64decode(s) with validate=False.
B64Decode(s) == B64Scan(s, 1, 0, 0, <<>>)

(***************************************************************************)
(* The call log                                                            *)
(***************************************************************************)
Buffers == {"str", "bytes", "bytearray"}

CanCall == Len(log) < MaxCalls /\ state.kind \in Buffers

Logged(op, args, res) ==
    log' = Append(log, [op |-> op, args |-> args, pre |-> state, res |-> res])

Last == log[Len(log)]

(***************************************************************************)
(* xor and xor_bruteforce                                                  *)
(***************************************************************************)
XorKeyTypes == {"utf", "hex", "base64"}

\* The key bytes xor computes from (key, key_type).
XorKeyBytes(key, key_type) ==
    IF key_type \notin XorKeyTypes THEN Raise("AssertionError")
    ELSE IF key_type = "utf" THEN
        LET e == Utf8Encode(key)
        IN IF e.ok THEN Unhexlify(Hexlify(e.val)) ELSE e
    ELSE IF key_type = "base64" THEN
        LET e == Utf8Encode(key)
            d == IF e.ok THEN B64Decode(e.val) ELSE e
        IN IF d.ok THEN Unhexlify(Hexlify(d.val)) ELSE d
    ELSE IF \E i \in 1..Len(key) : key[i] > 127 THEN Raise("ValueError")
    ELSE Unhexlify(key)

\* for item, key_val in zip(items, itertools.cycle(key)): x.append(item ^ key_val)
\* from item i on; a value above 255 makes bytearray.append raise, and x
\* keeps what was appended before.
RECURSIVE XorLoop(_, _, _, _)
XorLoop(items, key, i, x) ==
    IF i > Len(items) \/ key = <<>> THEN [ok |-> TRUE, x |-> x]
    ELSE LET v == BitXor(items[i], key[((i - 1) % Len(key)) + 1])
         IN IF v > 255 THEN [ok |-> FALSE, x |-> x]
            ELSE XorLoop(items, key, i + 1, Append(x, v))

\* The body of xor on state st: Ok(new state) or the exception raised.
xor_run(st, key, key_type) ==
    LET kb == XorKeyBytes(key, key_type)
    IN IF ~kb.ok THEN kb
       ELSE
         LET s == _convert_to_str(st)
             try == IF s.ok THEN XorLoop(s.val, kb.val, 1, <<>>)
                    ELSE [ok |-> FALSE, x |-> <<>>]
         IN IF try.ok THEN Ok(ByteArray(try.x))
            ELSE LET b == _convert_to_bytes(st)
                 IN IF ~b.ok THEN b
                    ELSE Ok(ByteArray(XorLoop(b.val, kb.val, 1, try.x).x))

xor(key, key_type) ==
    /\ CanCall
    /\ LET r == xor_run(state, key, key_type)
       IN /\ state' = IF r.ok THEN r.val ELSE state
          /\ Logged("xor", [key |-> key, key_type |-> key_type], r.err)
    /\ UNCHANGED MORSE_CODE_DICT

\* chepy.extras.combinatons.hex_chars: "00", "01", ..., "ff".
hex_chars == [k \in 0..255 |-> Hexlify(<<k>>)]

\* The body of xor_bruteforce: the state it leaves and "ok" or the exception.
xor_bruteforce_run(original, length) ==
    LET sliced == [kind |-> original.kind, val |-> Slice(original.val, length)]
        found == [k \in 0..255 |-> xor_run(sliced, hex_chars[k], "hex")]
        failed == {k \in 0..255 : ~found[k].ok}
    IN IF failed # {}
       THEN [state |-> sliced,
             err |-> found[CHOOSE k \in failed : \A j \in failed : k <= j].err]
       ELSE [state |-> [kind |-> "dict",
                        val |-> [h \in {hex_chars[k] : k \in 0..255} |->
                                   found[16 * HexDigitValue(h[1]) + HexDigitValue(h[2])].val]],
             err |-> "ok"]

xor_bruteforce(length) ==
    /\ CanCall
    /\ LET r == xor_bruteforce_run(state, length)
       IN /\ state' = r.state
          /\ Logged("xor_bruteforce", [length |-> length], r.err)
    /\ UNCHANGED MORSE_CODE_DICT

(***************************************************************************)
(* The Morse table: each letter or digit has a text of "." (46), "-" (45). *)
(* The model keeps eight of its entries.                                   *)
(***************************************************************************)
MorseEntries == <<
    <<65, <<46, 45>>>>,  \* A .-
    <<66, <<45, 46, 46, 46>>>>,  \* B -...
    <<69, <<46>>>>,  \* E .
    <<78, <<45, 46>>>>,  \* N -.
    <<83, <<46, 46, 46>>>>,  \* S ...
    <<84, <<45>>>>,  \* T -
    <<49, <<46, 45, 45, 45, 45>>>>,  \* 1 .----
    <<48, <<45, 45, 45, 45, 45>>>>  \* 0 -----
>>

MorseKeys == {MorseEntries[i][1] : i \in 1..Len(MorseEntries)}

MorseTable ==
    [k \in MorseKeys |->
        MorseEntries[CHOOSE i \in 1..Len(MorseEntries) : MorseEntries[i][1] = k][2]]

(***************************************************************************)
(* Sessions of xor calls                                                   *)
(***************************************************************************)
\* "A", e-acute, A-macron (above 255) and a lone surrogate.
XorChars == {65, 233, 256, 55296}
\* "A", the two bytes of e-acute in UTF-8, and a byte no UTF-8 text holds.
XorBytes == {65, 195, 169, 255}

XorKeys == {
    [key |-> <<48, 48>>, key_type |-> "hex"],          \* "00"
    [key |-> <<56, 48>>, key_type |-> "hex"],          \* "80"
    [key |-> <<48, 49, 56, 48>>, key_type |-> "hex"],  \* "0180"
    [key |-> <<48>>, key_type |-> "hex"],              \* "0": odd length
    [key |-> <<>>, key_type |-> "hex"],                \* empty key
    [key |-> <<>>, key_type |-> "utf"],                \* empty key
    [key |-> <<>>, key_type |-> "base64"],             \* empty key
    [key |-> <<65>>, key_type |-> "utf"],              \* "A"
    [key |-> <<233>>, key_type |-> "utf"],             \* e-acute: bytes c3 a9
    [key |-> <<81, 81, 61, 61>>, key_type |-> "base64"], \* "QQ==": "A"
    [key |-> <<81, 81>>, key_type |-> "base64"],       \* "QQ": padding missing
    [key |-> <<65>>, key_type |-> "raw"]               \* not a key type
}

XorLengths == {0, 1, 100}

InitXor ==
    /\ state \in {Str(s) : s \in SeqsUpTo(XorChars, MaxLen)}
                 \cup {Bytes(b) : b \in SeqsUpTo(XorBytes, MaxLen)}
    /\ MORSE_CODE_DICT = MorseTable
    /\ log = <<>>

XorCall == \E k \in XorKeys : xor(k.key, k.key_type)

XorBruteforceCall == \E n \in XorLengths : xor_bruteforce(n)

NextXor == XorCall \/ XorBruteforceCall

SpecXor == InitXor /\ [][NextXor]_vars

(***************************************************************************)
(* Claims about xor                                                        *)
(***************************************************************************)
\* The last call was a successful xor with a key of at least one byte.
XorDone ==
    /\ Len(log) >= 1
    /\ Last.op = "xor"
    /\ Last.res = "ok"
    /\ XorKeyBytes(Last.args.key, Last.args.key_type).val # <<>>

\* C1: after a successful xor with a non-empty key the state is a buffer with
\* exactly as many bytes as the input, and byte i is input[i] XOR
\* key[i mod len(key)].
C1_XorIsByteWise ==
    XorDone =>
        LET inp == _convert_to_bytes(Last.pre).val
            key == XorKeyBytes(Last.args.key, Last.args.key_type).val
        IN /\ Len(state.val) = Len(inp)
           /\ \A i \in 1..Len(inp) :
                  state.val[i] = BitXor(inp[i], key[((i - 1) % Len(key)) + 1])

\* C2: two xor calls in a row with the same non-empty key on a byte buffer b
\* leave the state equal to b.
C2_XorTwiceIsIdentity ==
    ( /\ Len(log) = 2
      /\ log[1].pre.kind = "bytes"
      /\ log[1].op = "xor" /\ log[2].op = "xor"
      /\ log[1].res = "ok" /\ log[2].res = "ok"
      /\ log[1].args = log[2].args
      /\ XorKeyBytes(log[1].args.key, log[1].args.key_type).val # <<>> )
    => state.val = log[1].pre.val

\* C5: a call that fails leaves the state as it found it.
C5_FailureLeavesState ==
    (Len(log) >= 1 /\ Last.res # "ok") => state = Last.pre

(***************************************************************************)
(* rotate and rot_47                                                       *)
(***************************************************************************)
ascii_lowercase == [i \in 1..26 |-> 96 + i]
ascii_uppercase == [i \in 1..26 |-> 64 + i]

\* str.translate(str.maketrans(from, to)) on one character.
TranslateChar(c, from, to) ==
    IF \E i \in 1..Len(from) : from[i] = c
    THEN to[CHOOSE i \in 1..Len(from) : from[i] = c]
    ELSE c

\* The table rotate builds: lc[n:] + lc[:n] + uc[n:] + uc[:n].
RotateTable(rotate_by) ==
    SliceFrom(ascii_lowercase, rotate_by) \o Slice(ascii_lowercase, rotate_by)
    \o SliceFrom(ascii_uppercase, rotate_by) \o Slice(ascii_uppercase, rotate_by)

\* The body of rotate: self.state.translate(lookup), which only text has.
rotate_run(st, rotate_by) ==
    IF st.kind # "str" THEN Raise("TypeError")
    ELSE Ok(Str([i \in 1..Len(st.val) |->
                    TranslateChar(st.val[i], ascii_lowercase \o ascii_uppercase,
                                  RotateTable(rotate_by))]))

rotate(rotate_by) ==
    /\ CanCall
    /\ LET r == rotate_run(state, rotate_by)
       IN /\ state' = IF r.ok THEN r.val ELSE state
          /\ Logged("rotate", [rotate_by |-> rotate_by], r.err)
    /\ UNCHANGED MORSE_CODE_DICT

\* One character of rot_47 with the upper end of the range left out.
rot_47_char_short_range(c, rotation) ==
    IF c >= 33 /\ c < 126 THEN ((c - 33 + rotation) % 94) + 33 ELSE c

\* One character of rot_47.
rot_47_char(c, rotation) ==
    IF c >= 33 /\ c <= 126 THEN ((c - 33 + rotation) % 94) + 33 ELSE c

rot_47_run(st, rotation) ==
    LET s == _convert_to_str(st)
    IN IF ~s.ok THEN s
       ELSE Ok(Str([i \in 1..Len(s.val) |-> rot_47_char(s.val[i], rotation)]))

rot_47(rotation) ==
    /\ CanCall
    /\ LET r == rot_47_run(state, rotation)
       IN /\ state' = IF r.ok THEN r.val ELSE state
          /\ Logged("rot_47", [rotation |-> rotation], r.err)
    /\ UNCHANGED MORSE_CODE_DICT

\* rot_8000.  valid_code_points: at each listed code point the visibility of
\* the code points from there on changes to the given value.
valid_code_points ==
    << <<33, TRUE>>, <<127, FALSE>>, <<161, TRUE>>, <<5760, FALSE>>, <<5761, TRUE>>,
       <<8192, FALSE>>, <<8203, TRUE>>, <<8232, FALSE>>, <<8234, TRUE>>, <<8239, FALSE>>,
       <<8240, TRUE>>, <<8287, FALSE>>, <<8288, TRUE>>, <<12288, FALSE>>, <<12289, TRUE>>,
       <<55296, FALSE>>, <<57344, TRUE>> >>

BMP_SIZE == 65536

\* The last code point the breakpoint j governs.
SegmentEnd(j) ==
    IF j < Len(valid_code_points) THEN valid_code_points[j + 1][1] - 1 ELSE BMP_SIZE - 1

\* i is in validintlist.
IsValidCodePoint(c) ==
    \E j \in 1..Len(valid_code_points) :
        /\ valid_code_points[j][2]
        /\ valid_code_points[j][1] <= c /\ c <= SegmentEnd(j)

\* The number of elements of validintlist below c, counted from breakpoint j
\* on: for a valid c, its index in validintlist.
RECURSIVE ValidBelow(_, _)
ValidBelow(c, j) ==
    IF j > Len(valid_code_points) THEN 0
    ELSE (IF valid_code_points[j][2] /\ valid_code_points[j][1] < c
          THEN (IF SegmentEnd(j) < c THEN SegmentEnd(j) + 1 ELSE c) - valid_code_points[j][1]
          ELSE 0)
         + ValidBelow(c, j + 1)

\* validintlist[r], looked for from breakpoint j on.
RECURSIVE ValidAt(_, _)
ValidAt(r, j) ==
    IF ~valid_code_points[j][2] THEN ValidAt(r, j + 1)
    ELSE IF r <= SegmentEnd(j) - valid_code_points[j][1] THEN valid_code_points[j][1] + r
    ELSE ValidAt(r - (SegmentEnd(j) - valid_code_points[j][1] + 1), j + 1)

\* rotatenum = len(validintlist) // 2
rotatenum == ValidBelow(BMP_SIZE, 1) \div 2

\* The mapping with a rotation by a quarter of the valid characters.
rot_8000_char_quarter(c) ==
    IF IsValidCodePoint(c)
    THEN ValidAt((ValidBelow(c, 1) + rotatenum \div 2) % (rotatenum * 2), 1)
    ELSE c

\* rotlist[char], or char itself when it is not in rotlist.
rot_8000_char(c) ==
    IF IsValidCodePoint(c) THEN ValidAt((ValidBelow(c, 1) + rotatenum) % (rotatenum * 2), 1)
    ELSE c

\* The body of rot_8000: Ok(outstring) or the exception raised.
rot_8000_run(st) ==
    LET s == _convert_to_str(st)
    IN IF ~s.ok THEN s
       ELSE Ok(Str([i \in 1..Len(s.val) |-> rot_8000_char(s.val[i])]))

\* rot_8000 returns outstring and assigns nothing to self.state; the call
\* record keeps what was returned.
rot_8000 ==
    /\ CanCall
    /\ \E r \in {rot_8000_run(state)} :
           log' = Append(log, [op |-> "rot_8000", args |-> <<>>, pre |-> state,
                               res |-> r.err, ret |-> r.val])
    /\ UNCHANGED <<state, MORSE_CODE_DICT>>

(***************************************************************************)
(* Sessions of rotation calls                                              *)
(***************************************************************************)
\* space, "!", "~" (the ends of the ROT47 range), "A", "b", "z", and U+9C40 (in
\* the upper half of the characters rot_8000 rotates).
RotChars == {32, 33, 126, 65, 98, 122, 40000}
\* "A" and a byte no UTF-8 text holds.
RotBytes == {65, 255}

\* Closed under n -> 26 - n.
RotateBy == {-26, -1, 0, 1, 13, 25, 26, 27, 52}

Rot47By == {47, 1, -1, 94, 141, -95}

InitRot ==
    /\ state \in {Str(s) : s \in SeqsUpTo(RotChars, MaxLen)}
                 \cup {Bytes(b) : b \in SeqsUpTo(RotBytes, MaxLen)}
    /\ MORSE_CODE_DICT = MorseTable
    /\ log = <<>>

RotateCall == \E n \in RotateBy : rotate(n)

Rot47Call == \E r \in Rot47By : rot_47(r)

Rot8000Call == rot_8000

NextRot == RotateCall \/ Rot47Call \/ Rot8000Call

SpecRot == InitRot /\ [][NextRot]_vars

(***************************************************************************)
(* Claims about rotate and rot_47                                          *)
(***************************************************************************)
IsAsciiLower(c) == c >= 97 /\ c <= 122
IsAsciiUpper(c) == c >= 65 /\ c <= 90

\* C8: rotate(n) followed by rotate(26 - n) leaves the text as it was.
C8_RotateThenComplement ==
    ( /\ Len(log) = 2
      /\ log[1].op = "rotate" /\ log[2].op = "rotate"
      /\ log[1].res = "ok" /\ log[2].res = "ok"
      /\ log[2].args.rotate_by = 26 - log[1].args.rotate_by )
    => state = log[1].pre

\* C9: rotate(n) maps the ASCII letter at alphabet position p to the letter of
\* the same case at position (p + n) mod 26, for every integer n, and leaves
\* every other character unchanged.
C9_RotateIsShiftMod26 ==
    (Len(log) >= 1 /\ Last.op = "rotate" /\ Last.res = "ok") =>
        LET t == Last.pre.val
            n == Last.args.rotate_by
        IN /\ state.kind = "str"
           /\ Len(state.val) = Len(t)
           /\ \A i \in 1..Len(t) :
                 state.val[i] =
                     IF IsAsciiLower(t[i]) THEN 97 + ((t[i] - 97 + n) % 26)
                     ELSE IF IsAsciiUpper(t[i]) THEN 65 + ((t[i] - 65 + n) % 26)
                     ELSE t[i]

IsLatin1Upper(c) == (c >= 192 /\ c <= 214) \/ (c >= 216 /\ c <= 222)
IsLatin1Lower(c) == (c >= 223 /\ c <= 246) \/ (c >= 248 /\ c <= 255)
IsAlpha(c) ==
    \/ (c >= 65 /\ c <= 90) \/ (c >= 97 /\ c <= 122)
    \/ c \in {170, 181, 186}
    \/ IsLatin1Upper(c) \/ IsLatin1Lower(c)
IsUpper(c) == (c >= 65 /\ c <= 90) \/ IsLatin1Upper(c)
Lower(c) == IF IsUpper(c) THEN c + 32 ELSE c
AsciiUpper(c) == IF c >= 97 /\ c <= 122 THEN c - 32 ELSE c

LowerAll(s) == [i \in 1..Len(s) |-> Lower(s[i])]
IsAlphaAll(s) == s # <<>> /\ \A i \in 1..Len(s) : IsAlpha(s[i])

\* "abcdefghijklmnopqrstuvwxyz".index(c), 0-based; -1 where Python raises.
AlphabetIndex(c) == IF c >= 97 /\ c <= 122 THEN c - 97 ELSE -1

\* The loop of vigenere_encode / vigenere_decode from character i on, with
\* fail non-alphabetic characters seen and output built so far; sign is 1 to
\* encode and -1 to decode.
\* The loop with the key advancing on every character, alphabetic or not.
RECURSIVE VigenereLoopEveryChar(_, _, _, _, _, _)
VigenereLoopEveryChar(input_str, key, sign, i, fail, output) ==
    IF i > Len(input_str) THEN Ok(output)
    ELSE IF IsAlpha(input_str[i]) THEN
        LET key_index == AlphabetIndex(key[((i - 1) % Len(key)) + 1])
            input_index == AlphabetIndex(Lower(input_str[i]))
            encoded_char == 97 + ((input_index + sign * key_index + 26) % 26)
        IN IF key_index < 0 \/ input_index < 0 THEN Raise("ValueError")
           ELSE VigenereLoopEveryChar(input_str, key, sign, i + 1, fail,
                    Append(output, IF IsUpper(input_str[i]) THEN AsciiUpper(encoded_char)
                                   ELSE encoded_char))
    ELSE VigenereLoopEveryChar(input_str, key, sign, i + 1, fail + 1,
                               Append(output, input_str[i]))

RECURSIVE VigenereLoop(_, _, _, _, _, _)
VigenereLoop(input_str, key, sign, i, fail, output) ==
    IF i > Len(input_str) THEN Ok(output)
    ELSE IF IsAlpha(input_str[i]) THEN
        LET is_upper == IsUpper(input_str[i])
            input_char == Lower(input_str[i])
            key_char == key[((i - 1 - fail) % Len(key)) + 1]
            key_index == AlphabetIndex(key_char)
            input_index == AlphabetIndex(input_char)
            encoded_index == (input_index + sign * key_index + 26) % 26
            encoded_char == 97 + encoded_index
        IN IF key_index < 0 \/ input_index < 0 THEN Raise("ValueError")
           ELSE VigenereLoop(input_str, key, sign, i + 1, fail,
                             Append(output, IF is_upper THEN AsciiUpper(encoded_char)
                                            ELSE encoded_char))
    ELSE VigenereLoop(input_str, key, sign, i + 1, fail + 1, Append(output, input_str[i]))

vigenere_encode_run(st, key) ==
    LET s == _convert_to_str(st)
        k == LowerAll(key)
    IN IF ~s.ok THEN s
       ELSE IF k = <<>> THEN Raise("ValueError: No key entered")
       ELSE IF ~IsAlphaAll(k) THEN Raise("ValueError: The key must consist only of letters")
       ELSE LET r == VigenereLoop(s.val, k, 1, 1, 0, <<>>)
            IN IF r.ok THEN Ok(Str(r.val)) ELSE r

vigenere_decode_run(st, key) ==
    LET s == _convert_to_str(st)
    IN IF ~s.ok THEN s
       ELSE IF key = <<>> THEN Raise("ValueError: No key entered")
       ELSE IF ~IsAlphaAll(key) THEN Raise("ValueError: The key must consist only of letters")
       ELSE LET r == VigenereLoop(s.val, key, -1, 1, 0, <<>>)
            IN IF r.ok THEN Ok(Str(r.val)) ELSE r

vigenere_encode(key) ==
    /\ CanCall
    /\ LET r == vigenere_encode_run(state, key)
       IN /\ state' = IF r.ok THEN r.val ELSE state
          /\ Logged("vigenere_encode", [key |-> key], r.err)
    /\ UNCHANGED MORSE_CODE_DICT

vigenere_decode(key) ==
    /\ CanCall
    /\ LET r == vigenere_decode_run(state, key)
       IN /\ state' = IF r.ok THEN r.val ELSE state
          /\ Logged("vigenere_decode", [key |-> key], r.err)
    /\ UNCHANGED MORSE_CODE_DICT

(***************************************************************************)
(* Sessions of Vigenere calls                                              *)
(***************************************************************************)
\* "a", "Y", a space, and e-acute (a letter outside the alphabet).
VigChars == {97, 89, 32, 233}

VigKeys == {
    <<98>>,        \* "b"
    <<66>>,        \* "B"
    <<98, 122>>,   \* "bz"
    <<98, 90>>,    \* "bZ"
    <<>>,          \* no key
    <<98, 49>>     \* "b1"
}

InitVig ==
    /\ state \in {Str(s) : s \in SeqsUpTo(VigChars, MaxLen + 1)}
    /\ MORSE_CODE_DICT = MorseTable
    /\ log = <<>>

VigenereEncodeCall == \E k \in VigKeys : vigenere_encode(k)

VigenereDecodeCall == \E k \in VigKeys : vigenere_decode(k)

NextVig == VigenereEncodeCall \/ VigenereDecodeCall

SpecVig == InitVig /\ [][NextVig]_vars

(***************************************************************************)
(* Claims about Vigenere                                                   *)
(***************************************************************************)
IsAsciiLetter(c) == IsAsciiLower(c) \/ IsAsciiUpper(c)
IsLetterKey(key) == key # <<>> /\ \A i \in 1..Len(key) : IsAsciiLetter(key[i])


\* C6: for a key made only of letters, of either case, vigenere_decode with
\* the key after a successful vigenere_encode with the same key succeeds and
\* gives the text back.
C6_VigenereRoundTrip ==
    ( /\ Len(log) = 2
      /\ log[1].op = "vigenere_encode" /\ log[2].op = "vigenere_decode"
      /\ log[1].res = "ok"
      /\ log[1].args.key = log[2].args.key
      /\ IsLetterKey(log[1].args.key) )
    => (log[2].res = "ok" /\ state = log[1].pre)

\* C7: vigenere_encode and vigenere_decode fail exactly when the key is
\* malformed: with a ValueError when the key is empty or holds a non-letter,
\* and never for a non-empty key of letters.
C7_VigenereFailsIffBadKey ==
    (Len(log) >= 1 /\ Last.op \in {"vigenere_encode", "vigenere_decode"}) =>
        (Last.res # "ok" <=> ~IsLetterKey(Last.args.key))

(***************************************************************************)
(* to_morse_code and from_morse_code                                       *)
(***************************************************************************)
\* Text helpers: str.replace of one character, the substring test, str.split
\* with and without a separator, removal of the first n occurrences.
RECURSIVE ReplaceChar(_, _, _)
ReplaceChar(v, old, new) ==
    IF v = <<>> THEN <<>>
    ELSE (IF Head(v) = old THEN new ELSE <<Head(v)>>) \o ReplaceChar(Tail(v), old, new)

StartsWith(s, sub) == Len(sub) <= Len(s) /\ SubSeq(s, 1, Len(sub)) = sub

Contains(s, sub) == \E i \in 0..Len(s) : StartsWith(SubSeq(s, i + 1, Len(s)), sub)

\* s.split(sep) for a non-empty sep: the pieces, empty ones kept.
RECURSIVE SplitOn(_, _, _)
SplitOn(s, sep, piece) ==
    IF s = <<>> THEN <<piece>>
    ELSE IF StartsWith(s, sep) THEN <<piece>> \o SplitOn(SubSeq(s, Len(sep) + 1, Len(s)), sep, <<>>)
    ELSE SplitOn(Tail(s), sep, Append(piece, Head(s)))

IsSpace(c) == c \in {9, 10, 11, 12, 13, 32}

\* s.split(): the runs of characters between white space.
RECURSIVE SplitWords(_, _)
SplitWords(s, word) ==
    IF s = <<>> THEN (IF word = <<>> THEN <<>> ELSE <<word>>)
    ELSE IF IsSpace(Head(s)) THEN
        (IF word = <<>> THEN <<>> ELSE <<word>>) \o SplitWords(Tail(s), <<>>)
    ELSE SplitWords(Tail(s), Append(word, Head(s)))

\* s without the first count occurrences of sub.
RECURSIVE RemoveFirst(_, _, _)
RemoveFirst(s, sub, count) ==
    IF s = <<>> \/ count = 0 THEN s
    ELSE IF sub = <<>> THEN s
    ELSE IF StartsWith(s, sub) THEN RemoveFirst(SubSeq(s, Len(sub) + 1, Len(s)), sub, count - 1)
    ELSE <<Head(s)>> \o RemoveFirst(Tail(s), sub, count)

\* re.sub(pattern, "", s, count) for the patterns used as word delimiters:
\* "|" is the alternation of two empty patterns, which matches only the empty
\* string, so nothing is removed; the others are ordinary characters.
ReSub(pattern, s, count) == IF pattern = <<124>> THEN s ELSE RemoveFirst(s, pattern, count)

\* re.I passed as the count argument of re.sub.
re_I == 2

\* for k, v in morse_code_dict.items():
\*     morse_code_dict[k] = v.replace(".", dot).replace("-", dash)
\* on the shared table.
MorseRewritten(table, dot, dash) ==
    [k \in DOMAIN table |-> ReplaceChar(ReplaceChar(table[k], 46, dot), 45, dash)]

\* The loops of to_morse_code over the words from word w and character i on.
RECURSIVE ToMorseLoop(_, _, _, _, _, _, _)
ToMorseLoop(table, words, w, i, letter_delim, word_delim, encode) ==
    IF w > Len(words) THEN Ok(encode)
    ELSE IF i > Len(words[w]) THEN
        ToMorseLoop(table, words, w + 1, 1, letter_delim, word_delim, encode \o word_delim)
    ELSE LET c == AsciiUpper(words[w][i])
         IN IF c \notin DOMAIN table THEN Raise("TypeError")
            ELSE ToMorseLoop(table, words, w, i + 1, letter_delim, word_delim,
                             encode \o table[c] \o letter_delim)

to_morse_code_run(st, table, a) ==
    LET s == _convert_to_str(st)
    IN IF ~s.ok THEN s
       ELSE LET r == ToMorseLoop(table, SplitWords(s.val, <<>>), 1, 1,
                                 a.letter_delim, a.word_delim, <<>>)
            IN IF r.ok THEN Ok(Str(r.val)) ELSE r

to_morse_code(a) ==
    /\ CanCall
    /\ MORSE_CODE_DICT' = MorseRewritten(MORSE_CODE_DICT, a.dot, a.dash)
    /\ LET r == to_morse_code_run(state, MORSE_CODE_DICT', a)
       IN /\ state' = IF r.ok THEN r.val ELSE state
          /\ Logged("to_morse_code", a, r.err)

\* {value: key for key, value in morse_code_dict.items()}: of two keys with
\* the same code the later one stays.
MorseReversed(table, code) ==
    LET hits == {i \in 1..Len(MorseEntries) : table[MorseEntries[i][1]] = code}
    IN IF hits = {} THEN <<>>
       ELSE <<MorseEntries[CHOOSE i \in hits : \A j \in hits : j <= i][1]>>

\* The loop of from_morse_code over the pieces from piece i on.
RECURSIVE FromMorseLoop(_, _, _, _, _)
FromMorseLoop(table, pieces, i, word_delim, decode) ==
    IF i > Len(pieces) THEN decode
    ELSE IF Contains(pieces[i], word_delim) THEN
        LET chars == ReSub(word_delim, pieces[i], re_I)
            found == MorseReversed(table, chars)
        IN FromMorseLoop(table, pieces, i + 1, word_delim,
                         decode \o <<32>> \o (IF found # <<>> THEN found ELSE chars))
    ELSE FromMorseLoop(table, pieces, i + 1, word_delim,
                       decode \o MorseReversed(table, pieces[i]))

from_morse_code_run(st, table, a) ==
    LET s == _convert_to_str(st)
    IN IF ~s.ok THEN s
       ELSE IF a.letter_delim = <<>> THEN Raise("ValueError")
       ELSE Ok(Str(FromMorseLoop(table, SplitOn(s.val, a.letter_delim, <<>>), 1,
                                 a.word_delim, <<>>)))

from_morse_code(a) ==
    /\ CanCall
    /\ MORSE_CODE_DICT' = MorseRewritten(MORSE_CODE_DICT, a.dot, a.dash)
    /\ LET r == from_morse_code_run(state, MORSE_CODE_DICT', a)
       IN /\ state' = IF r.ok THEN r.val ELSE state
          /\ Logged("from_morse_code", a, r.err)

(***************************************************************************)
(* Sessions of Morse calls                                                 *)
(***************************************************************************)
\* "A", "e", a space and "#" (not in the table).
MorseChars == {65, 101, 32, 35}

MorseArgs == {
    \* the defaults: ".", "-", " ", "\n"
    [dot |-> <<46>>, dash |-> <<45>>, letter_delim |-> <<32>>, word_delim |-> <<10>>],
    \* dot="*"
    [dot |-> <<42>>, dash |-> <<45>>, letter_delim |-> <<32>>, word_delim |-> <<10>>],
    \* dot="-", dash="."
    [dot |-> <<45>>, dash |-> <<46>>, letter_delim |-> <<32>>, word_delim |-> <<10>>],
    \* letter_delim="/", word_delim="|"
    [dot |-> <<46>>, dash |-> <<45>>, letter_delim |-> <<47>>, word_delim |-> <<124>>]
}

InitMorse ==
    /\ state \in {Str(s) : s \in SeqsUpTo(MorseChars, MaxLen + 1)}
    /\ MORSE_CODE_DICT = MorseTable
    /\ log = <<>>

ToMorseCall == \E a \in MorseArgs : to_morse_code(a)

FromMorseCall == \E a \in MorseArgs : from_morse_code(a)

NextMorse == ToMorseCall \/ FromMorseCall

SpecMorse == InitMorse /\ [][NextMorse]_vars

(***************************************************************************)
(* Claims about the Morse table                                            *)
(***************************************************************************)
\* C4: the shared Morse table is never written after initialization: after
\* any sequence of to_morse_code and from_morse_code calls, with any dot and
\* dash, it equals its initial value.
C4_MorseTableConstant == MORSE_CODE_DICT = MorseTable

(***************************************************************************)
(* _convert_key                                                            *)
(***************************************************************************)
\* str.encode("latin-1").
Latin1Encode(s) ==
    IF \E i \in 1..Len(s) : s[i] > 255 THEN Raise("UnicodeEncodeError") ELSE Ok(s)

\* x.decode().encode(codec) on bytes x.
Recode(x, codec) ==
    LET t == Utf8Decode(x)
    IN IF ~t.ok THEN t
       ELSE IF codec = "latin-1" THEN Latin1Encode(t.val)
       ELSE Utf8Encode(t.val)

\* if isinstance(x, str): x = x.encode()
EncodeIfStr(x) == IF x.kind = "str" THEN Utf8Encode(x.val) ELSE Ok(x.val)

\* One "if fmt == ...: x = f(x)" statement on a value that may already have
\* raised: the three conversions of _convert_key.
ThenUnhexlify(x, cond) == IF x.ok /\ cond THEN Unhexlify(x.val) ELSE x
ThenB64Decode(x, cond) == IF x.ok /\ cond THEN B64Decode(x.val) ELSE x
ThenRecode(x, cond, codec) == IF x.ok /\ cond THEN Recode(x.val, codec) ELSE x

Rehex(x) == Unhexlify(Hexlify(x))

\* The key part of _convert_key: the key after its four format tests.
ConvertKeyPart(key, key_format) ==
    Only({Only({Only({Only({
        ThenRecode(k3, key_format = "latin-1", "latin-1") :
        k3 \in {ThenRecode(k2, key_format \in {"utf-8", "utf8"}, "utf-8")}}) :
        k2 \in {ThenB64Decode(k1, key_format \in {"base64", "b64"})}}) :
        k1 \in {ThenUnhexlify(k0, key_format = "hex")}}) :
        k0 \in {EncodeIfStr(key)}})

\* The IV part up to the base64 test.
ConvertIvPart(iv, iv_format) ==
    Only({Only({
        ThenB64Decode(i1, iv_format \in {"base64", "b64"}) :
        i1 \in {ThenUnhexlify(i0, iv_format = "hex")}}) :
        i0 \in {EncodeIfStr(iv)}})

\* The utf-8 and latin-1 tests of the IV part, which assign to key.
ConvertIvTail(key, iv_format) ==
    Only({ThenRecode(k5, iv_format = "latin-1", "latin-1") :
          k5 \in {ThenRecode(Ok(key), iv_format \in {"utf-8", "utf8"}, "utf-8")}})

\* The last step: Ok(<<key, iv>>), the IV through hexlify and unhexlify unless
\* iv_format is latin-1.
ConvertKeyResult(k6, i2, iv_format) ==
    IF ~k6.ok THEN k6
    ELSE IF iv_format = "latin-1" THEN Ok(<<k6.val, i2.val>>)
    ELSE Ok(<<k6.val, Rehex(i2.val).val>>)

\* _convert_key(key, iv, key_format, iv_format): Ok(<<key, iv>>) or the
\* exception.  The statements run in the order of the source, so the first
\* that raises decides the exception.
_convert_key(key, iv, key_format, iv_format) ==
    Only({IF ~k4.ok THEN k4
          ELSE Only({IF ~i2.ok THEN i2
                     ELSE Only({ConvertKeyResult(k6, i2, iv_format) :
                                k6 \in {ConvertIvTail(k4.val, iv_format)}}) :
                     i2 \in {ConvertIvPart(iv, iv_format)}}) :
          k4 \in {ConvertKeyPart(key, key_format)}})

(***************************************************************************)
(* The cipher library: block primitives, modes of operation, padding       *)
(***************************************************************************)
\* The block size of each cipher of the library.
BlockSize(family) == IF family = "AES" THEN 16 ELSE 8

\* The key lengths X.new accepts.
KeyLengthOk(family, key) ==
    IF family = "DES" THEN Len(key) = 8
    ELSE IF family = "DES3" THEN
        /\ Len(key) \in {16, 24}
        /\ SubSeq(key, 1, 8) # SubSeq(key, 9, 16)
    ELSE IF family = "AES" THEN Len(key) \in {16, 24, 32}
    ELSE Len(key) >= 4 /\ Len(key) <= 56

KeyByte(key, i) == key[((i - 1) % Len(key)) + 1]

\* The block primitive stands for any keyed permutation of the blocks: this
\* one rotates the block by one byte and adds key bytes.
EncryptBlock(key, B) ==
    [i \in 1..Len(B) |-> (B[(i % Len(B)) + 1] + KeyByte(key, i) + i) % 256]

DecryptBlock(key, C) ==
    [j \in 1..Len(C) |->
        LET i == ((j - 2) % Len(C)) + 1 IN (C[i] - KeyByte(key, i) - i) % 256]

XorSeq(a, b) == [i \in 1..Len(a) |-> BitXor(a[i], b[i])]

\* Block j (from 1) of data, the last one possibly short.
BlockOf(data, bs, j) ==
    SubSeq(data, (j - 1) * bs + 1, IF j * bs < Len(data) THEN j * bs ELSE Len(data))

NBlocks(data, bs) == (Len(data) + bs - 1) \div bs

\* Padding that adds nothing to data already a multiple of the block size.
PadToBlock(data, bs) ==
    LET n == (bs - (Len(data) % bs)) % bs IN data \o [i \in 1..n |-> n]

\* Crypto.Util.Padding.pad and unpad (PKCS#7).
Pad(data, bs) ==
    LET n == bs - (Len(data) % bs) IN data \o [i \in 1..n |-> n]

\* Unpadding that trusts the last byte and does not look at the other
\* padding bytes.
UnpadLastByte(data, bs) ==
    IF data = <<>> \/ Len(data) % bs # 0 THEN Raise("ValueError")
    ELSE LET n == data[Len(data)]
         IN IF n < 1 \/ n > bs \/ n > Len(data) THEN Raise("ValueError")
            ELSE Ok(SubSeq(data, 1, Len(data) - n))

Unpad(data, bs) ==
    IF data = <<>> \/ Len(data) % bs # 0 THEN Raise("ValueError")
    ELSE LET n == data[Len(data)]
         IN IF n < 1 \/ n > bs \/ n > Len(data) THEN Raise("ValueError")
            ELSE IF \E i \in (Len(data) - n + 1)..Len(data) : data[i] # n
            THEN Raise("ValueError")
            ELSE Ok(SubSeq(data, 1, Len(data) - n))

RECURSIVE EcbBlocks(_, _, _, _, _)
EcbBlocks(key, data, bs, j, encrypting) ==
    IF j > NBlocks(data, bs) THEN <<>>
    ELSE (IF encrypting THEN EncryptBlock(key, BlockOf(data, bs, j))
          ELSE DecryptBlock(key, BlockOf(data, bs, j)))
         \o EcbBlocks(key, data, bs, j + 1, encrypting)

RECURSIVE CbcEncryptBlocks(_, _, _, _, _)
CbcEncryptBlocks(key, data, bs, j, prev) ==
    IF j > NBlocks(data, bs) THEN <<>>
    ELSE LET c == EncryptBlock(key, XorSeq(BlockOf(data, bs, j), prev))
         IN c \o CbcEncryptBlocks(key, data, bs, j + 1, c)

RECURSIVE CbcDecryptBlocks(_, _, _, _, _)
CbcDecryptBlocks(key, data, bs, j, prev) ==
    IF j > NBlocks(data, bs) THEN <<>>
    ELSE LET c == BlockOf(data, bs, j)
         IN XorSeq(DecryptBlock(key, c), prev) \o CbcDecryptBlocks(key, data, bs, j + 1, c)

\* The counter block of value v: bs bytes, big-endian.
RECURSIVE CounterBlock(_, _)
CounterBlock(bs, v) ==
    IF bs = 0 THEN <<>> ELSE Append(CounterBlock(bs - 1, v \div 256), v % 256)

\* CTR (and the keystream of GCM): block j is XORed with the encrypted counter
\* first + j - 1.  Encryption and decryption are the same.
RECURSIVE CtrBlocks(_, _, _, _, _)
CtrBlocks(key, data, bs, j, first) ==
    IF j > NBlocks(data, bs) THEN <<>>
    ELSE XorSeq(BlockOf(data, bs, j), EncryptBlock(key, CounterBlock(bs, first + j - 1)))
         \o CtrBlocks(key, data, bs, j + 1, first)

\* OFB: the keystream is the IV encrypted again and again.
RECURSIVE OfbBlocks(_, _, _, _, _)
OfbBlocks(key, data, bs, j, prev) ==
    IF j > NBlocks(data, bs) THEN <<>>
    ELSE LET o == EncryptBlock(key, prev)
         IN XorSeq(BlockOf(data, bs, j), o) \o OfbBlocks(key, data, bs, j + 1, o)

\* CFB with segments of one block: the keystream is the encrypted previous
\* ciphertext block.
RECURSIVE CfbEncryptBlocks(_, _, _, _, _)
CfbEncryptBlocks(key, data, bs, j, prev) ==
    IF j > NBlocks(data, bs) THEN <<>>
    ELSE LET c == XorSeq(BlockOf(data, bs, j), EncryptBlock(key, prev))
         IN c \o CfbEncryptBlocks(key, data, bs, j + 1, c)

RECURSIVE CfbDecryptBlocks(_, _, _, _, _)
CfbDecryptBlocks(key, data, bs, j, prev) ==
    IF j > NBlocks(data, bs) THEN <<>>
    ELSE LET c == BlockOf(data, bs, j)
         IN XorSeq(c, EncryptBlock(key, prev)) \o CfbDecryptBlocks(key, data, bs, j + 1, c)

\* The first counter of GCM's keystream for the fixed nonce.
GcmFirstCounter == 2

\* X.new(key, mode, iv=iv) / X.new(key, mode, nonce=...): the key and the IV
\* must have the lengths the cipher wants.
NewCipherOk(family, mode, key, iv) ==
    /\ KeyLengthOk(family, key)
    /\ mode \in {"CBC", "OFB", "CFB"} => Len(iv) = BlockSize(family)

\* Encryption whose CTR and GCM counters start at the first byte of the IV.
CipherEncryptIvCounter(family, mode, key, iv, data) ==
    LET bs == BlockSize(family)
        first == IF iv = <<>> THEN 0 ELSE iv[1]
    IN IF mode \in {"CBC", "ECB"} /\ Len(data) % bs # 0 THEN Raise("ValueError")
       ELSE IF mode = "CBC" THEN Ok(CbcEncryptBlocks(key, data, bs, 1, iv))
       ELSE IF mode = "ECB" THEN Ok(EcbBlocks(key, data, bs, 1, TRUE))
       ELSE IF mode = "CTR" THEN Ok(CtrBlocks(key, data, bs, 1, first))
       ELSE IF mode = "GCM" THEN Ok(CtrBlocks(key, data, bs, 1, GcmFirstCounter + first))
       ELSE IF mode = "OFB" THEN Ok(OfbBlocks(key, data, bs, 1, iv))
       ELSE Ok(CfbEncryptBlocks(key, data, bs, 1, iv))

\* cipher.encrypt(data) and cipher.decrypt(data) of a fresh cipher object.
CipherEncrypt(family, mode, key, iv, data) ==
    LET bs == BlockSize(family)
    IN IF mode \in {"CBC", "ECB"} /\ Len(data) % bs # 0 THEN Raise("ValueError")
       ELSE IF mode = "CBC" THEN Ok(CbcEncryptBlocks(key, data, bs, 1, iv))
       ELSE IF mode = "ECB" THEN Ok(EcbBlocks(key, data, bs, 1, TRUE))
       ELSE IF mode = "CTR" THEN Ok(CtrBlocks(key, data, bs, 1, 0))
       ELSE IF mode = "GCM" THEN Ok(CtrBlocks(key, data, bs, 1, GcmFirstCounter))
       ELSE IF mode = "OFB" THEN Ok(OfbBlocks(key, data, bs, 1, iv))
       ELSE Ok(CfbEncryptBlocks(key, data, bs, 1, iv))

CipherDecrypt(family, mode, key, iv, data) ==
    LET bs == BlockSize(family)
    IN IF mode \in {"CBC", "ECB"} /\ Len(data) % bs # 0 THEN Raise("ValueError")
       ELSE IF mode = "CBC" THEN Ok(CbcDecryptBlocks(key, data, bs, 1, iv))
       ELSE IF mode = "ECB" THEN Ok(EcbBlocks(key, data, bs, 1, FALSE))
       ELSE IF mode = "CTR" THEN Ok(CtrBlocks(key, data, bs, 1, 0))
       ELSE IF mode = "GCM" THEN Ok(CtrBlocks(key, data, bs, 1, GcmFirstCounter))
       ELSE IF mode = "OFB" THEN Ok(OfbBlocks(key, data, bs, 1, iv))
       ELSE Ok(CfbDecryptBlocks(key, data, bs, 1, iv))

(***************************************************************************)
(* The block-cipher methods.  a is the record of the arguments:            *)
(* [key, iv, mode, key_format, iv_format].                                 *)
(***************************************************************************)
\* A mode check that lets every mode through.
check_mode_any(mode) == TRUE

\* __check_mode
check_mode(mode) == mode \in {"CBC", "OFB", "CTR", "ECB"}

\* The modes the assert of aes_encrypt and aes_decrypt lets through.
aes_check_mode(mode) == mode \in {"CBC", "CFB", "OFB", "CTR", "ECB", "GCM"}

\* self.state = cipher.encrypt(...), on the padded bytes for CBC and ECB.
EncryptData(family, pad_size, mode, key, iv, data) ==
    IF ~data.ok THEN data
    ELSE Only({IF out.ok THEN Ok(Bytes(out.val)) ELSE out :
               out \in {CipherEncrypt(family, mode, key, iv,
                                      IF mode \in {"CBC", "ECB"}
                                      THEN Pad(data.val, pad_size) ELSE data.val)}})

\* What follows the mode check in every encrypt method: convert the key and
\* the IV, make the cipher, read the state as bytes, pad it for CBC and ECB
\* and encrypt.
EncryptBody(family, pad_size, st, a) ==
    Only({IF ~kv.ok THEN kv
          ELSE IF ~NewCipherOk(family, a.mode, kv.val[1], kv.val[2]) THEN Raise("ValueError")
          ELSE Only({EncryptData(family, pad_size, a.mode, kv.val[1], kv.val[2], data) :
                     data \in {_convert_to_bytes(st)}}) :
          kv \in {_convert_key(a.key, a.iv, a.key_format, a.iv_format)}})

\* Padding.unpad on what the cipher gave, in the modes that pad.
UnpadOut(out, pad_size, mode) ==
    IF ~out.ok THEN out
    ELSE IF mode \in {"CBC", "ECB"} THEN
        Only({IF res.ok THEN Ok(Bytes(res.val)) ELSE res : res \in {Unpad(out.val, pad_size)}})
    ELSE Ok(Bytes(out.val))

\* Decryption that keeps the padding of CBC and ECB.
DecryptDataNoUnpad(family, pad_size, mode, key, iv, data) ==
    IF ~data.ok THEN data
    ELSE Only({IF out.ok THEN Ok(Bytes(out.val)) ELSE out :
               out \in {CipherDecrypt(family, mode, key, iv, data.val)}})

\* self.state = cipher.decrypt(...), inside Padding.unpad for CBC and ECB.
DecryptData(family, pad_size, mode, key, iv, data) ==
    IF ~data.ok THEN data
    ELSE Only({UnpadOut(out, pad_size, mode) :
               out \in {CipherDecrypt(family, mode, key, iv, data.val)}})

\* What follows the mode check in every decrypt method: convert the key and
\* the IV, make the cipher, decrypt the state's bytes and unpad for CBC and
\* ECB.
DecryptBody(family, pad_size, st, a) ==
    Only({IF ~kv.ok THEN kv
          ELSE IF ~NewCipherOk(family, a.mode, kv.val[1], kv.val[2]) THEN Raise("ValueError")
          ELSE Only({DecryptData(family, pad_size, a.mode, kv.val[1], kv.val[2], data) :
                     data \in {_convert_to_bytes(st)}}) :
          kv \in {_convert_key(a.key, a.iv, a.key_format, a.iv_format)}})

des_encrypt_run(st, a) ==
    IF ~check_mode(a.mode) THEN Raise("AssertionError") ELSE EncryptBody("DES", 8, st, a)

des_decrypt_run(st, a) ==
    IF ~check_mode(a.mode) THEN Raise("AssertionError") ELSE DecryptBody("DES", 8, st, a)

triple_des_encrypt_run(st, a) ==
    IF ~check_mode(a.mode) THEN Raise("AssertionError") ELSE EncryptBody("DES3", 8, st, a)

triple_des_decrypt_run(st, a) ==
    IF ~check_mode(a.mode) THEN Raise("AssertionError") ELSE DecryptBody("DES3", 8, st, a)

aes_encrypt_run(st, a) ==
    IF ~aes_check_mode(a.mode) THEN Raise("AssertionError") ELSE EncryptBody("AES", 16, st, a)

aes_decrypt_run(st, a) ==
    IF ~aes_check_mode(a.mode) THEN Raise("AssertionError") ELSE DecryptBody("AES", 16, st, a)

blowfish_encrypt_run(st, a) ==
    IF ~check_mode(a.mode) THEN Raise("AssertionError") ELSE EncryptBody("Blowfish", 8, st, a)

blowfish_decrypt_run(st, a) ==
    IF ~check_mode(a.mode) THEN Raise("AssertionError") ELSE DecryptBody("Blowfish", 8, st, a)

\* A method call: the state is replaced when the body returns, and kept when
\* it raises.
Method(op, a, r) ==
    /\ CanCall
    /\ state' = IF r.ok THEN r.val ELSE state
    /\ Logged(op, a, r.err)
    /\ UNCHANGED MORSE_CODE_DICT

des_encrypt(a) == Method("des_encrypt", a, des_encrypt_run(state, a))
des_decrypt(a) == Method("des_decrypt", a, des_decrypt_run(state, a))
triple_des_encrypt(a) == Method("triple_des_encrypt", a, triple_des_encrypt_run(state, a))
triple_des_decrypt(a) == Method("triple_des_decrypt", a, triple_des_decrypt_run(state, a))
aes_encrypt(a) == Method("aes_encrypt", a, aes_encrypt_run(state, a))
aes_decrypt(a) == Method("aes_decrypt", a, aes_decrypt_run(state, a))
blowfish_encrypt(a) == Method("blowfish_encrypt", a, blowfish_encrypt_run(state, a))
blowfish_decrypt(a) == Method("blowfish_decrypt", a, blowfish_decrypt_run(state, a))

(***************************************************************************)
(* Sessions of block-cipher calls                                          *)
(***************************************************************************)
\* The longest plaintext: one byte more than the AES block.
MaxPlain == 17

\* Plaintexts: bytes without pattern, and bytes that all read as padding.
PlainMixed(n) == [i \in 1..n |-> (37 * i + 11) % 256]
PlainOnes(n) == [i \in 1..n |-> 1]

BytesFrom(first, n) == [i \in 1..n |-> first + i - 1]

\* The keys are given in hex; each cipher gets a key of a length it accepts,
\* and DES also one it rejects.
CipherKeys(family) ==
    IF family = "DES" THEN {Str(Hexlify(BytesFrom(1, 8))), Str(Hexlify(BytesFrom(1, 7)))}
    ELSE IF family = "DES3" THEN {Str(Hexlify(BytesFrom(1, 16)))}
    ELSE IF family = "AES" THEN {Str(Hexlify(BytesFrom(1, 16)))}
    ELSE {Str(Hexlify(BytesFrom(1, 5)))}

\* The default IV (zeros) and another one, in hex.
CipherIVs(family) ==
    {Str(Hexlify([i \in 1..BlockSize(family) |-> 0])),
     Str(Hexlify(BytesFrom(200, BlockSize(family))))}

CipherModes == {"CBC", "ECB", "CTR", "OFB", "CFB", "GCM", "XTS"}

\* A key of an accepted length and an IV of one block, both given as text.
CipherTextKey(family) ==
    Str(BytesFrom(65, IF family = "DES" THEN 8 ELSE IF family = "Blowfish" THEN 5 ELSE 16))

CipherTextIV(family) == Str(BytesFrom(97, BlockSize(family)))

\* A key that is not hex: one digit.
MalformedHexKey == Str(<<48>>)

CipherArgs(family) ==
    {[key |-> k, iv |-> v, mode |-> m, key_format |-> "hex", iv_format |-> "hex"] :
        k \in CipherKeys(family), v \in CipherIVs(family), m \in CipherModes}
    \cup {[key |-> CipherTextKey(family), iv |-> CipherTextIV(family), mode |-> m,
           key_format |-> "utf8", iv_format |-> "utf8"] : m \in CipherModes}
    \cup {[key |-> MalformedHexKey, iv |-> CipherTextIV(family), mode |-> m,
           key_format |-> "hex", iv_format |-> "utf8"] : m \in {"CBC", "XTS"}}

\* One block that ends 3, 2: its last byte reads as a pad of two bytes, the
\* byte before it is not 2.
BadPadBlock(bs) == [i \in 1..bs |-> IF i = bs THEN 2 ELSE 3]

\* The ECB ciphertext of that block under the hex key of CipherKeys.
BadPadCipher(family) ==
    EcbBlocks(BytesFrom(1, IF family = "DES" THEN 8 ELSE IF family = "Blowfish" THEN 5 ELSE 16),
              BadPadBlock(BlockSize(family)), BlockSize(family), 1, TRUE)

InitBlock ==
    /\ state \in {Bytes(PlainMixed(n)) : n \in 0..MaxPlain}
                 \cup {Bytes(PlainOnes(n)) : n \in 0..MaxPlain}
                 \cup {Str(<<233>>), Str(<<65, 66>>)}
                 \cup {Bytes(BadPadCipher(f)) : f \in {"DES", "DES3", "AES", "Blowfish"}}
    /\ MORSE_CODE_DICT = MorseTable
    /\ log = <<>>

\* A session keeps the arguments of its first call.
SameArgs(a) == IF log = <<>> THEN TRUE ELSE Last.args = a

DesEncryptCall == \E a \in CipherArgs("DES") : SameArgs(a) /\ des_encrypt(a)
DesDecryptCall == \E a \in CipherArgs("DES") : SameArgs(a) /\ des_decrypt(a)
TripleDesEncryptCall == \E a \in CipherArgs("DES3") : SameArgs(a) /\ triple_des_encrypt(a)
TripleDesDecryptCall == \E a \in CipherArgs("DES3") : SameArgs(a) /\ triple_des_decrypt(a)
AesEncryptCall == \E a \in CipherArgs("AES") : SameArgs(a) /\ aes_encrypt(a)
AesDecryptCall == \E a \in CipherArgs("AES") : SameArgs(a) /\ aes_decrypt(a)
BlowfishEncryptCall == \E a \in CipherArgs("Blowfish") : SameArgs(a) /\ blowfish_encrypt(a)
BlowfishDecryptCall == \E a \in CipherArgs("Blowfish") : SameArgs(a) /\ blowfish_decrypt(a)

NextBlock ==
    \/ DesEncryptCall \/ DesDecryptCall
    \/ TripleDesEncryptCall \/ TripleDesDecryptCall
    \/ AesEncryptCall \/ AesDecryptCall
    \/ BlowfishEncryptCall \/ BlowfishDecryptCall

SpecBlock == InitBlock /\ [][NextBlock]_vars

(***************************************************************************)
(* Claims about the block ciphers                                          *)
(***************************************************************************)
DecryptOf(op) ==
    IF op = "des_encrypt" THEN "des_decrypt"
    ELSE IF op = "triple_des_encrypt" THEN "triple_des_decrypt"
    ELSE IF op = "aes_encrypt" THEN "aes_decrypt"
    ELSE IF op = "blowfish_encrypt" THEN "blowfish_decrypt"
    ELSE "none"

\* The session is a successful encrypt followed by the decrypt of the same
\* cipher with the same key, IV, mode and formats.
EncryptThenDecrypt ==
    /\ Len(log) = 2
    /\ log[1].res = "ok"
    /\ log[2].op = DecryptOf(log[1].op)
    /\ log[2].args = log[1].args

\* C3: for DES, Triple DES, AES and Blowfish, in every mode the cipher
\* supports, decrypt after encrypt with the same key, IV, mode and formats
\* succeeds and leaves the bytes of the plaintext as the state, whether the
\* plaintext's length is a multiple of the block size or not.
C3_DecryptInvertsEncrypt ==
    EncryptThenDecrypt =>
        /\ log[2].res = "ok"
        /\ state = Bytes(_convert_to_bytes(log[1].pre).val)

\* C3 witness: AES in CBC mode has encrypted and decrypted a plaintext of one
\* full block.
C3_Witness ==
    /\ EncryptThenDecrypt
    /\ log[1].op = "aes_encrypt" /\ log[1].args.mode = "CBC"
    /\ Len(log[1].pre.val) = 16
    /\ Len(log[2].pre.val) = 32
    /\ state = log[1].pre

\* The names of the encrypt and decrypt methods and the cipher of each.
EncryptOps == {"des_encrypt", "triple_des_encrypt", "aes_encrypt", "blowfish_encrypt"}
DecryptOps == {"des_decrypt", "triple_des_decrypt", "aes_decrypt", "blowfish_decrypt"}

FamilyOf(op) ==
    IF op \in {"des_encrypt", "des_decrypt"} THEN "DES"
    ELSE IF op \in {"triple_des_encrypt", "triple_des_decrypt"} THEN "DES3"
    ELSE IF op \in {"aes_encrypt", "aes_decrypt"} THEN "AES"
    ELSE "Blowfish"

\* The state call i left behind.
Post(i) == IF i = Len(log) THEN state ELSE log[i + 1].pre

\* The number of bytes of a buffer.
ByteLen(st) == Len(_convert_to_bytes(st).val)

\* C11: a successful encryption in CBC or ECB mode leaves a ciphertext whose
\* length is the smallest multiple of the block size (8 for DES, Triple DES
\* and Blowfish, 16 for AES) strictly greater than the plaintext's length; in
\* CTR, OFB, CFB and GCM mode the ciphertext has the plaintext's length.
C11_CiphertextLength ==
    \A i \in 1..Len(log) :
        (log[i].op \in EncryptOps /\ log[i].res = "ok") =>
            /\ Post(i).kind = "bytes"
            /\ Len(Post(i).val) =
                  IF log[i].args.mode \in {"CBC", "ECB"}
                  THEN ((ByteLen(log[i].pre) \div BlockSize(FamilyOf(log[i].op))) + 1)
                       * BlockSize(FamilyOf(log[i].op))
                  ELSE ByteLen(log[i].pre)

\* C11 witness: AES in ECB mode has encrypted a plaintext of exactly one
\* block, 16 bytes, to 32 bytes.
C11_Witness ==
    /\ Len(log) = 1 /\ log[1].res = "ok"
    /\ log[1].op = "aes_encrypt" /\ log[1].args.mode = "ECB"
    /\ Len(log[1].pre.val) = 16 /\ Len(state.val) = 32

\* The modes the specification supports for each cipher.
SupportedModes(family) ==
    IF family = "AES" THEN {"CBC", "CFB", "OFB", "CTR", "ECB", "GCM"}
    ELSE {"CBC", "OFB", "CTR", "ECB"}

\* C12: a block cipher call with a mode outside the cipher's supported set
\* fails with the invalid-mode error (AssertionError) whatever the key and
\* the IV are, malformed ones included, and leaves the state as it was; a call
\* with a supported mode never fails with that error and, when it succeeds,
\* has written bytes to the state.
C12_InvalidModeRejected ==
    \A i \in 1..Len(log) :
        log[i].op \in EncryptOps \cup DecryptOps =>
            IF log[i].args.mode \in SupportedModes(FamilyOf(log[i].op))
            THEN /\ log[i].res # "AssertionError"
                 /\ log[i].res = "ok" => Post(i).kind = "bytes"
            ELSE /\ log[i].res = "AssertionError"
                 /\ Post(i) = log[i].pre

\* C12 witness: triple_des_encrypt was called with mode XTS and a key that is
\* not hex, and failed on the mode.
C12_Witness ==
    /\ Len(log) = 1
    /\ log[1].op = "triple_des_encrypt"
    /\ log[1].args.mode = "XTS" /\ log[1].args.key = MalformedHexKey
    /\ log[1].res = "AssertionError"
    /\ state = log[1].pre

\* What cipher.decrypt returned in decrypt call i, before any unpadding:
\* defined when the mode, the key and the IV were accepted.
RawDecrypt(i) ==
    Only({IF kv.ok /\ NewCipherOk(FamilyOf(log[i].op), log[i].args.mode, kv.val[1], kv.val[2])
          THEN CipherDecrypt(FamilyOf(log[i].op), log[i].args.mode, kv.val[1], kv.val[2],
                             _convert_to_bytes(log[i].pre).val)
          ELSE Raise("no cipher") :
          kv \in {_convert_key(log[i].args.key, log[i].args.iv,
                               log[i].args.key_format, log[i].args.iv_format)}})

\* data ends in a PKCS#7 pad for blocks of bs bytes.
ValidPkcs7(data, bs) ==
    /\ data # <<>>
    /\ Len(data) % bs = 0
    /\ data[Len(data)] \in 1..bs
    /\ \A k \in (Len(data) - data[Len(data)] + 1)..Len(data) : data[k] = data[Len(data)]

\* C13: when a decrypt call in CBC or ECB mode gets from the cipher a
\* plaintext that does not end in a valid PKCS#7 pad, it raises the padding
\* error (ValueError) and the state keeps the ciphertext: no truncated
\* plaintext is stored.
C13_BadPaddingRaises ==
    \A i \in 1..Len(log) :
        (/\ log[i].op \in DecryptOps
         /\ log[i].args.mode \in {"CBC", "ECB"}
         /\ log[i].pre.kind = "bytes") =>
            Only({(raw.ok /\ ~ValidPkcs7(raw.val, BlockSize(FamilyOf(log[i].op)))) =>
                      (log[i].res = "ValueError" /\ Post(i) = log[i].pre) :
                  raw \in {RawDecrypt(i)}})

\* C13 witness: aes_decrypt in ECB mode got a block ending 3, 2 from the
\* cipher, raised ValueError and left the ciphertext in the state.
C13_Witness ==
    /\ Len(log) = 1
    /\ log[1].op = "aes_decrypt" /\ log[1].args.mode = "ECB"
    /\ log[1].pre = Bytes(BadPadCipher("AES"))
    /\ RawDecrypt(1).ok /\ RawDecrypt(1).val = BadPadBlock(16)
    /\ log[1].res = "ValueError"
    /\ state = log[1].pre

\* C14: an xor call whose key decodes to zero bytes (the empty key, given as
\* hex, utf or base64) fails, whatever the state is.
C14_EmptyKeyRejected ==
    \A i \in 1..Len(log) :
        (/\ log[i].op = "xor"
         /\ XorKeyBytes(log[i].args.key, log[i].args.key_type).ok
         /\ XorKeyBytes(log[i].args.key, log[i].args.key_type).val = <<>>)
        => log[i].res # "ok"

(***************************************************************************)
(* _convert_key on its own: the helper is called and what it returns is    *)
(* recorded.  b is the record [key, iv, key_format, iv_format].            *)
(***************************************************************************)
convert_key(b) ==
    /\ CanCall
    /\ \E r \in {_convert_key(b.key, b.iv, b.key_format, b.iv_format)} :
           log' = Append(log, [op |-> "_convert_key", args |-> b, pre |-> state,
                               res |-> r.err, out |-> r.val])
    /\ UNCHANGED <<state, MORSE_CODE_DICT>>

\* Key and IV material: "41", "0" (odd), "QQ==", "QQ==!" (a character that is
\* not base64), e-acute, "c3a9".
KeyMaterial ==
    {Str(<<52, 49>>), Str(<<48>>), Str(<<81, 81, 61, 61>>), Str(<<81, 81, 61, 61, 33>>),
     Str(<<233>>), Str(<<99, 51, 97, 57>>)}

KeyFormats == {"hex", "base64", "b64", "utf8", "utf-8", "latin-1", "raw"}

InitKey ==
    /\ state = Bytes(<<>>)
    /\ MORSE_CODE_DICT = MorseTable
    /\ log = <<>>

\* A session converts one key and one IV, under one iv_format after another.
ConvertKeyCall ==
    \E k \in KeyMaterial, v \in KeyMaterial, kf \in KeyFormats, vf \in KeyFormats :
        /\ (log # <<>>) =>
               (Last.args.key = k /\ Last.args.key_format = kf /\ Last.args.iv = v)
        /\ convert_key([key |-> k, iv |-> v, key_format |-> kf, iv_format |-> vf])

NextKey == ConvertKeyCall

SpecKey == InitKey /\ [][NextKey]_vars

(***************************************************************************)
(* Claims about _convert_key                                               *)
(***************************************************************************)
\* Hex text: an even number of hex digits.
WellFormedHex(s) == Len(s) % 2 = 0 /\ \A i \in 1..Len(s) : HexDigitValue(s[i]) >= 0

\* Base64 text: groups of four characters of the alphabet, the last group
\* possibly ending in one or two "=".
WellFormedB64(s) ==
    /\ Len(s) % 4 = 0
    /\ \A i \in 1..Len(s) :
           \/ B64Value(s[i]) >= 0
           \/ s[i] = 61 /\ i > 2 /\ i >= Len(s) - 1 /\ s[Len(s)] = 61

\* The material x is malformed for the format f.
Malformed(x, f) ==
    \/ f = "hex" /\ ~WellFormedHex(x.val)
    \/ f \in {"base64", "b64"} /\ ~WellFormedB64(x.val)

\* The bytes the material x stands for in the format f (x is well formed).
Decoded(x, f) ==
    IF f = "hex" THEN Unhexlify(x.val).val
    ELSE IF f \in {"base64", "b64"} THEN B64Decode(x.val).val
    ELSE IF f = "latin-1" THEN Latin1Encode(x.val).val
    ELSE Utf8Encode(x.val).val

\* C15: _convert_key decodes the key and the IV each by its own format: hex
\* is unhexlified, base64 and b64 are base64-decoded, utf-8, utf8 and latin-1
\* encode the text in that codec, any other format gives the encoded bytes;
\* malformed hex or base64 makes the call fail.
C15_DecodesByFormat ==
    \A i \in 1..Len(log) :
        log[i].op = "_convert_key" =>
            /\ (Malformed(log[i].args.key, log[i].args.key_format)
                \/ Malformed(log[i].args.iv, log[i].args.iv_format)) => log[i].res # "ok"
            /\ log[i].res = "ok" =>
                   /\ log[i].out[1] = Decoded(log[i].args.key, log[i].args.key_format)
                   /\ log[i].out[2] = Decoded(log[i].args.iv, log[i].args.iv_format)

\* C16: the IV is decoded by the rule of the key, and neither depends on the
\* other: a call with the same material and format for both returns the same
\* bytes for both; the call succeeds exactly when the key alone and the IV
\* alone decode; and two calls with the same key and key_format that succeed
\* return the same key whatever iv_format is.
C16_IvDecodedLikeKey ==
    /\ \A i \in 1..Len(log) :
           log[i].op = "_convert_key" =>
               /\ (log[i].res = "ok" /\ log[i].args.iv = log[i].args.key
                   /\ log[i].args.iv_format = log[i].args.key_format)
                  => log[i].out[2] = log[i].out[1]
               /\ log[i].res = "ok" <=>
                      (ConvertKeyPart(log[i].args.key, log[i].args.key_format).ok
                       /\ ConvertKeyPart(log[i].args.iv, log[i].args.iv_format).ok)
    /\ (Len(log) = 2 /\ log[1].op = "_convert_key" /\ log[2].op = "_convert_key"
        /\ log[1].res = "ok" /\ log[2].res = "ok")
       => log[1].out[1] = log[2].out[1]

(***************************************************************************)
(* Claims about the Morse round trip                                       *)
(***************************************************************************)
\* The words of a text, upper-cased and joined by single spaces.
RECURSIVE JoinUpper(_, _)
JoinUpper(words, w) ==
    IF w > Len(words) THEN <<>>
    ELSE (IF w > 1 THEN <<32>> ELSE <<>>)
         \o [k \in 1..Len(words[w]) |-> AsciiUpper(words[w][k])]
         \o JoinUpper(words, w + 1)

\* t is one or more words over the characters of the Morse table.
IsMorseText(t) ==
    /\ \A k \in 1..Len(t) : IsSpace(t[k]) \/ AsciiUpper(t[k]) \in MorseKeys
    /\ \E k \in 1..Len(t) : ~IsSpace(t[k])

\* C17: to_morse_code followed by from_morse_code with the same dot, dash and
\* delimiters, on a text of one or more words over the Morse alphabet, leaves
\* the text upper-cased with single spaces between the words and nothing
\* before or after.
C17_MorseRoundTrip ==
    ( /\ Len(log) = 2
      /\ log[1].op = "to_morse_code" /\ log[2].op = "from_morse_code"
      /\ log[1].args = log[2].args
      /\ log[1].pre.kind = "str" /\ IsMorseText(log[1].pre.val) )
    => /\ log[1].res = "ok" /\ log[2].res = "ok"
       /\ state = Str(JoinUpper(SplitWords(log[1].pre.val, <<>>), 1))

(***************************************************************************)
(* Claims about what a call leaves and returns                             *)
(***************************************************************************)
\* C18: a rotation method that succeeds returns the object itself and has
\* written its result to the state; after rot_8000 the state is the rotated
\* text, as after rotate and rot_47.
C18_ResultWrittenBack ==
    \A i \in 1..Len(log) :
        log[i].res = "ok" =>
            /\ "ret" \notin DOMAIN log[i]
            /\ log[i].op = "rot_8000" => Post(i) = rot_8000_run(log[i].pre).val
            /\ log[i].op = "rot_47" =>
                   Post(i) = rot_47_run(log[i].pre, log[i].args.rotation).val
            /\ log[i].op = "rotate" =>
                   Post(i) = rotate_run(log[i].pre, log[i].args.rotate_by).val

(***************************************************************************)
(* Claims about AES-GCM                                                    *)
(***************************************************************************)
\* C19: AES-GCM encryption hands the authentication tag to the caller with
\* the ciphertext, so what it leaves in the state is more than the ciphertext
\* bytes, which are as many as the plaintext's; and AES-GCM decryption uses
\* the tag, so it fails on the empty buffer, which holds no tag.
C19_GcmTagKept ==
    \A i \in 1..Len(log) :
        /\ (log[i].op = "aes_encrypt" /\ log[i].args.mode = "GCM" /\ log[i].res = "ok")
           => (Post(i).kind # "bytes" \/ Len(Post(i).val) > ByteLen(log[i].pre))
        /\ (log[i].op = "aes_decrypt" /\ log[i].args.mode = "GCM"
            /\ log[i].pre = Bytes(<<>>)
            /\ _convert_key(log[i].args.key, log[i].args.iv,
                            log[i].args.key_format, log[i].args.iv_format).ok)
           => log[i].res # "ok"

(***************************************************************************)
(* Atbash                                                                  *)
(***************************************************************************)
\* pycipher.Atbash: the key "ZYX...A" at the position of an upper-case letter.
AtbashChar(c) == IF c >= 65 /\ c <= 90 THEN 155 - c ELSE c

\* pycipher.Atbash().encipher(text, keep_punct=True) on ASCII text, as called
\* by atbash_encode; decipher is encipher.  The library upper-cases the text
\* before it substitutes ("secret" gives "HVXIVG").
atbash_run(st) ==
    LET s == _convert_to_str(st)
    IN IF ~s.ok THEN s
       ELSE Ok(Str([i \in 1..Len(s.val) |-> AtbashChar(AsciiUpper(s.val[i]))]))

atbash_encode ==
    /\ CanCall
    /\ \E r \in {atbash_run(state)} :
           /\ state' = IF r.ok THEN r.val ELSE state
           /\ Logged("atbash_encode", <<>>, r.err)
    /\ UNCHANGED MORSE_CODE_DICT

atbash_decode ==
    /\ CanCall
    /\ \E r \in {atbash_run(state)} :
           /\ state' = IF r.ok THEN r.val ELSE state
           /\ Logged("atbash_decode", <<>>, r.err)
    /\ UNCHANGED MORSE_CODE_DICT

\* "a", "Z", "!", "1".
AtbashChars == {97, 90, 33, 49}

InitAtbash ==
    /\ state \in {Str(s) : s \in SeqsUpTo(AtbashChars, MaxLen)}
                 \cup {Bytes(<<97>>), Bytes(<<255>>)}
    /\ MORSE_CODE_DICT = MorseTable
    /\ log = <<>>

NextAtbash == atbash_encode \/ atbash_decode

SpecAtbash == InitAtbash /\ [][NextAtbash]_vars

\* C20: atbash_encode followed by atbash_encode or by atbash_decode leaves
\* the text as it was, the case of its letters and its non-letters included.
C20_AtbashSelfInverse ==
    ( /\ Len(log) = 2
      /\ log[1].op = "atbash_encode"
      /\ log[1].pre.kind = "str" )
    => /\ log[1].res = "ok" /\ log[2].res = "ok"
       /\ state = log[1].pre

(***************************************************************************)
(* Affine                                                                  *)
(***************************************************************************)
\* pycipher.Affine(a, b): the multipliers the constructor accepts and the
\* inverse it finds by trying the odd numbers below 26.
AffineMultipliers == {1, 3, 5, 7, 9, 11, 15, 17, 19, 21, 23, 25}

AffineInverse(a) == CHOOSE i \in {1, 3, 5, 7, 9, 11, 13, 15, 17, 19, 21, 23, 25} : (a * i) % 26 = 1

\* remove_punctuation: the text upper-cased, without what is not in A-Z
\* (encipher and decipher are called without keep_punct).
RECURSIVE AffineLetters(_)
AffineLetters(s) ==
    IF s = <<>> THEN <<>>
    ELSE (IF AsciiUpper(Head(s)) >= 65 /\ AsciiUpper(Head(s)) <= 90
          THEN <<AsciiUpper(Head(s))>> ELSE <<>>)
         \o AffineLetters(Tail(s))

\* pycipher.Affine(a=a, b=b).encipher(text) and .decipher(text): Ok(new
\* state) or the exception raised.
affine_run(st, a, b, encode) ==
    IF a \notin AffineMultipliers THEN Raise("AssertionError")
    ELSE LET s == _convert_to_str(st)
         IN IF ~s.ok THEN s
            ELSE Ok(Str([i \in 1..Len(AffineLetters(s.val)) |->
                    65 + (IF encode
                          THEN (a * (AffineLetters(s.val)[i] - 65) + b) % 26
                          ELSE (AffineInverse(a) * (AffineLetters(s.val)[i] - 65 - b)) % 26)]))

affine_encode(a, b) ==
    /\ CanCall
    /\ \E r \in {affine_run(state, a, b, TRUE)} :
           /\ state' = IF r.ok THEN r.val ELSE state
           /\ Logged("affine_encode", [a |-> a, b |-> b], r.err)
    /\ UNCHANGED MORSE_CODE_DICT

affine_decode(a, b) ==
    /\ CanCall
    /\ \E r \in {affine_run(state, a, b, FALSE)} :
           /\ state' = IF r.ok THEN r.val ELSE state
           /\ Logged("affine_decode", [a |-> a, b |-> b], r.err)
    /\ UNCHANGED MORSE_CODE_DICT

\* "a", "Y", a space, e-acute.
AffineChars == {97, 89, 32, 233}

\* Multipliers: coprime with 26 (1, 5, 25, 27) and not (2, 13).
AffineA == {1, 5, 25, 27, 2, 13}

AffineB == {0, 1, 27, -1}

InitAffine ==
    /\ state \in {Str(s) : s \in SeqsUpTo(AffineChars, MaxLen)}
    /\ MORSE_CODE_DICT = MorseTable
    /\ log = <<>>

\* A session keeps a and b.
AffineEncodeCall ==
    \E a \in AffineA, b \in AffineB :
        /\ (log # <<>>) => Last.args = [a |-> a, b |-> b]
        /\ affine_encode(a, b)

AffineDecodeCall ==
    \E a \in AffineA, b \in AffineB :
        /\ (log # <<>>) => Last.args = [a |-> a, b |-> b]
        /\ affine_decode(a, b)

NextAffine == AffineEncodeCall \/ AffineDecodeCall

SpecAffine == InitAffine /\ [][NextAffine]_vars

\* a has no factor in common with 26.
CoprimeWith26(a) == a % 2 = 1 /\ a % 13 # 0

\* C21: for a coprime with 26 and any b, affine_encode(a, b) followed by
\* affine_decode(a, b) succeeds and leaves the text as it was.
C21_AffineRoundTrip ==
    ( /\ Len(log) = 2
      /\ log[1].op = "affine_encode" /\ log[2].op = "affine_decode"
      /\ log[1].args = log[2].args
      /\ CoprimeWith26(log[1].args.a) )
    => /\ log[1].res = "ok" /\ log[2].res = "ok"
       /\ state = log[1].pre

(***************************************************************************)
(* Monoalphabetic substitution                                             *)
(***************************************************************************)
\* The loop of monoalphabetic_substitution: hold += mapping.get(c.lower(), c).
\* A mapping is a function from characters to texts.
RECURSIVE MonoLoop(_, _)
MonoLoop(cipher, mapping) ==
    IF cipher = <<>> THEN <<>>
    ELSE (IF Lower(Head(cipher)) \in DOMAIN mapping
          THEN mapping[Lower(Head(cipher))]
          ELSE <<Head(cipher)>>)
         \o MonoLoop(Tail(cipher), mapping)

monoalphabetic_run(st, mapping) ==
    LET cipher == _convert_to_str(st)
    IN IF ~cipher.ok THEN cipher ELSE Ok(Str(MonoLoop(cipher.val, mapping)))

monoalphabetic_substitution(mapping) ==
    /\ CanCall
    /\ \E r \in {monoalphabetic_run(state, mapping)} :
           /\ state' = IF r.ok THEN r.val ELSE state
           /\ Logged("monoalphabetic_substitution", mapping, r.err)
    /\ UNCHANGED MORSE_CODE_DICT

\* "a", "A", "b", "!".
MonoChars == {97, 65, 98, 33}

\* {}, {"a": "x"}, {"A": "x"}, {"a": "x", "b": "a"}, {"A": "x", "!": "?"},
\* {"b": "B"}.
MonoMappings ==
    { <<>>,
      (97 :> <<120>>),
      (65 :> <<120>>),
      (97 :> <<120>>) @@ (98 :> <<97>>),
      (65 :> <<120>>) @@ (33 :> <<63>>),
      (98 :> <<66>>) }

InitMono ==
    /\ state \in {Str(s) : s \in SeqsUpTo(MonoChars, MaxLen)}
    /\ MORSE_CODE_DICT = MorseTable
    /\ log = <<>>

NextMono == \E mapping \in MonoMappings : monoalphabetic_substitution(mapping)

SpecMono == InitMono /\ [][NextMono]_vars

\* The keys of the mapping that equal c when case is ignored.
KeysMatching(mapping, c) == {k \in DOMAIN mapping : Lower(k) = Lower(c)}

\* C22: monoalphabetic_substitution gives one output character per input
\* character, in order: the mapped value where a key of the mapping equals
\* the character with case ignored (an upper-case key included), the
\* character itself where no key does.
C22_CaseInsensitiveKeys ==
    \A n \in 1..Len(log) :
        (log[n].op = "monoalphabetic_substitution" /\ log[n].pre.kind = "str")
        => /\ log[n].res = "ok"
           /\ Post(n).kind = "str"
           /\ Len(Post(n).val) = Len(log[n].pre.val)
           /\ \A i \in 1..Len(log[n].pre.val) :
                  IF KeysMatching(log[n].args, log[n].pre.val[i]) = {}
                  THEN Post(n).val[i] = log[n].pre.val[i]
                  ELSE \E k \in KeysMatching(log[n].args, log[n].pre.val[i]) :
                           <<Post(n).val[i]>> = log[n].args[k]

(***************************************************************************)
(* The Vigenere key position                                               *)
(***************************************************************************)
VigenereOps == {"vigenere_encode", "vigenere_decode"}

\* The number of alphabetic characters of s before position i.
AlphaBefore(s, i) == Cardinality({j \in 1..(i - 1) : IsAlpha(s[j])})

\* The letter the claim gives for letter c under key character kc.
VigenereLetter(op, c, kc) ==
    LET input_idx == AlphabetIndex(Lower(c))
        key_idx == AlphabetIndex(Lower(kc))
        idx == IF op = "vigenere_encode" THEN (input_idx + key_idx) % 26
               ELSE (input_idx - key_idx + 26) % 26
    IN IF IsUpper(c) THEN 65 + idx ELSE 97 + idx

\* C23: in a vigenere_encode or vigenere_decode call that returns, the k-th
\* alphabetic character of the input (from 0) is combined with key character
\* k mod len(key), by (input_idx + key_idx) mod 26 to encode and
\* (input_idx - key_idx + 26) mod 26 to decode, keeping the case of the
\* input letter; every other character is copied at its position.
C23_KeyAdvancesOnLetters ==
    \A n \in 1..Len(log) :
        (log[n].op \in VigenereOps /\ log[n].res = "ok")
        => /\ Post(n).kind = "str"
           /\ Len(Post(n).val) = Len(log[n].pre.val)
           /\ \A i \in 1..Len(log[n].pre.val) :
                  Post(n).val[i] =
                      IF IsAlpha(log[n].pre.val[i])
                      THEN VigenereLetter(log[n].op, log[n].pre.val[i],
                               log[n].args.key[(AlphaBefore(log[n].pre.val, i)
                                                % Len(log[n].args.key)) + 1])
                      ELSE log[n].pre.val[i]

\* A decode with a two-letter key has returned on a text where an upper-case
\* letter follows a non-letter, so that its position and its rank among the
\* letters select different key characters.
C23_Witness ==
    /\ Len(log) >= 1
    /\ log[1].op = "vigenere_decode" /\ log[1].res = "ok"
    /\ log[1].args.key = <<98, 122>>
    /\ \E i \in 1..Len(log[1].pre.val) :
           /\ IsUpper(log[1].pre.val[i])
           /\ AlphaBefore(log[1].pre.val, i) % 2 # (i - 1) % 2
           /\ Post(1).val[i] # log[1].pre.val[i]

(***************************************************************************)
(* The rot_8000 mapping                                                    *)
(***************************************************************************)
\* The size of the visible set, and the index of a visible code point in it.
VisibleCount == ValidBelow(BMP_SIZE, 1)
VisibleIndex(c) == ValidBelow(c, 1)

\* C24: in what rot_8000 returns, the visible code point at index i of the
\* visible set has become the one at index (i + N/2) mod N, N the size of
\* the set; the image is visible and maps back to the original; a character
\* outside the set is returned as it was.
C24_Rot8000HalfRotation ==
    \A n \in 1..Len(log) :
        (log[n].op = "rot_8000" /\ log[n].res = "ok" /\ log[n].pre.kind = "str")
        => /\ log[n].ret.kind = "str"
           /\ Len(log[n].ret.val) = Len(log[n].pre.val)
           /\ \A i \in 1..Len(log[n].pre.val) :
                \E c \in {log[n].pre.val[i]}, d \in {log[n].ret.val[i]} :
                  IF IsValidCodePoint(c)
                  THEN /\ IsValidCodePoint(d)
                       /\ VisibleIndex(d) = (VisibleIndex(c) + VisibleCount \div 2) % VisibleCount
                       /\ rot_8000_char(d) = c
                  ELSE d = c

\* rot_8000 has returned on a text of a visible character of the upper half,
\* rotated past the end of the set to the lower half, and a space.
C24_Witness ==
    \E n \in 1..Len(log) :
        /\ log[n].op = "rot_8000" /\ log[n].res = "ok"
        /\ log[n].pre = Str(<<40000, 32>>)
        /\ log[n].ret = Str(<<8297, 32>>)

(***************************************************************************)
(* The xor_bruteforce mapping                                              *)
(***************************************************************************)
\* Every byte of b XORed with v.
XorEachWith(b, v) == [i \in 1..Len(b) |-> BitXor(b[i], v)]

\* C25: after a xor_bruteforce that returns, the state is a mapping with one
\* entry for each of the 256 single-byte keys, and the entry for key v holds
\* the first `length` bytes of the original input, each XORed with v.
C25_BruteforceByteWise ==
    \A n \in 1..Len(log) :
        (log[n].op = "xor_bruteforce" /\ log[n].res = "ok")
        => /\ Post(n).kind = "dict"
           /\ DOMAIN Post(n).val = {Hexlify(<<v>>) : v \in 0..255}
           /\ \E prefix \in {Slice(_convert_to_bytes(log[n].pre).val, log[n].args.length)} :
                  \A v \in 0..255 :
                      Post(n).val[Hexlify(<<v>>)] = ByteArray(XorEachWith(prefix, v))

(***************************************************************************)
(* The IV in the modes that take none                                      *)
(***************************************************************************)
\* The encrypt method named op on state st with arguments a.
EncryptRun(op, st, a) ==
    IF op = "des_encrypt" THEN des_encrypt_run(st, a)
    ELSE IF op = "triple_des_encrypt" THEN triple_des_encrypt_run(st, a)
    ELSE IF op = "aes_encrypt" THEN aes_encrypt_run(st, a)
    ELSE blowfish_encrypt_run(st, a)

\* Well-formed IVs of a format: of one block, of one byte and empty.
OtherIVs(family, iv_format) ==
    IF iv_format = "hex"
    THEN CipherIVs(family) \cup {Str(<<>>), Str(Hexlify(<<7>>))}
    ELSE {CipherTextIV(family), Str(<<>>), Str(<<122>>)}

\* The call is an encryption in a mode that takes no IV.
NoIvMode(op, mode) ==
    /\ op \in EncryptOps
    /\ mode \in {"ECB", "CTR"} \/ (op = "aes_encrypt" /\ mode = "GCM")

\* C26: in ECB and CTR mode of every family and in AES-GCM, an encrypt call
\* gives what the same call gives with any other well-formed IV (the
\* plaintext, the key, the mode and the formats being the same): the same
\* outcome and the same state.
C26_CiphertextIgnoresIv ==
    \A n \in 1..Len(log) :
        NoIvMode(log[n].op, log[n].args.mode)
        => \A v \in OtherIVs(FamilyOf(log[n].op), log[n].args.iv_format) :
               \E r \in {EncryptRun(log[n].op, log[n].pre, [log[n].args EXCEPT !.iv = v])} :
                   /\ r.err = log[n].res
                   /\ r.ok => Post(n) = r.val

\* An encryption in CTR mode has returned on a plaintext of more than one
\* block, called with an IV that is not the default.
C26_Witness ==
    /\ Len(log) >= 1
    /\ log[1].op = "aes_encrypt" /\ log[1].res = "ok"
    /\ log[1].args.mode = "CTR"
    /\ log[1].args.iv = Str(Hexlify(BytesFrom(200, 16)))
    /\ log[1].pre = Bytes(PlainMixed(17))
    /\ Post(1) # log[1].pre
    /\ Len(Post(1).val) = 17

====
